---------------------------- MODULE Spec2Model ----------------------------
(***************************************************************************)
(* Model of the admin console of the survey application.                   *)
(*                                                                         *)
(* AnalyticsPage, the admin analytics dashboard: the component state and   *)
(* its fetch handlers (the view state machine), and the statistics the     *)
(* render derives from the fetched questions.  The repository has a second *)
(* AnalyticsPage, which receives its fetch function as a prop; it has the  *)
(* same state without isEmpty, and its own handlers (the Prop actions).    *)
(*                                                                         *)
(* SurveyPage, the survey builder: the editable working set of questions   *)
(* by level and its handlers.                                              *)
(***************************************************************************)
EXTENDS Integers, Sequences, FiniteSets, TLC

VARIABLES
    questions,   \* useState<Question[]>([])
    answers,     \* useState<Answer[]>([])
    loading,     \* useState(true)
    err,         \* useState<string | null>(null)
    isEmpty,     \* useState(false)
    mounted,     \* position of the mount effect: "init", "mounted", "redirected"
    pending,     \* ids of the fetches whose promise is still awaited
    issued,      \* number of fetches initiated so far (ids are 1..issued)
    latest,      \* history: outcome of the most recently initiated fetch
    last,        \* history: the handler step taken last and the view it started in
    rendered,    \* what the last render of the component computed
    recentAnsweredIds   \* useState<Set<string>>(new Set()), second AnalyticsPage

pageVars == <<questions, answers, loading, err, isEmpty, mounted, pending, issued,
              latest, last, rendered, recentAnsweredIds>>

\* SurveyPage
VARIABLES
    questionsByLevel,    \* useState<QMap>({Beginner: [], Intermediate: [], Advanced: []})
    currentTab,          \* useState<Level>("Beginner")
    currentIndex,        \* useState(0)
    mode,                \* useState<"create" | "edit">("edit")
    showDeleteDialog,    \* useState(false)
    levelToDelete,       \* useState<Level>("Beginner")
    showUIImmediately,   \* useState(false)
    fetched,             \* questions of useAdminSurveyApi
    error,               \* error of useAdminSurveyApi
    fetching,            \* number of fetchQuestions calls still awaited
    deleting,            \* the delete handlers suspended at await deleteQuestions
    sent,                \* the last call of createQuestions / updateQuestions
    surveyMounted,       \* position of the mount effects: "init", "mounted", "redirected"
    step                 \* history: the step taken last, and the user events so far

builderVars == <<questionsByLevel, currentTab, currentIndex, mode, showDeleteDialog,
                 levelToDelete, showUIImmediately, fetched, error, fetching,
                 deleting, sent, surveyMounted, step>>

vars == <<pageVars, builderVars>>

---------------------------------------------------------------------------
\* Values

\* JavaScript null / undefined where a string is expected.
NULL == "<null>"

\* An optional value of another type: absent, or present with value v.
Absent == <<>>

Some(v) == <<v>>

LEVELS == <<"Beginner", "Intermediate", "Advanced">>

\* A question record as delivered by the fetch.  timesAnswered, timesSkipped and
\* answers are optional; an embedded option is its optional isCorrect flag.
Question(id, type, level, answered, skipped, opts) ==
    [questionID |-> id, questionType |-> type, questionLevel |-> level,
     timesAnswered |-> answered, timesSkipped |-> skipped, answers |-> opts]

\* A submitted-response record.
Answer(qid, correct) == [questionId |-> qid, isCorrect |-> correct]

---------------------------------------------------------------------------
\* String helpers

\* String.prototype.includes
Includes(s, sub) ==
    \E i \in 1..(Len(s) - Len(sub) + 1) : SubSeq(s, i, i + Len(sub) - 1) = sub

\* JavaScript truthiness of a string-or-null value.
Truthy(v) == v # NULL /\ v # ""

NoQuestionsMessage ==
    "No questions found in the database. Please add some questions first in the admin dashboard."

\* Mutant: only the "404" marker is looked for.
IsEmptySignal_Only404(message) == message # NULL /\ Includes(message, "404")

\* The condition of the catch block: e.message?.includes("404") || ... ; an absent
\* message makes every disjunct undefined, hence falsy.
IsEmptySignal(message) ==
    /\ message # NULL
    /\ \/ Includes(message, "404")
       \/ Includes(message, "No questions")
       \/ Includes(message, "empty")

---------------------------------------------------------------------------
\* The render of AnalyticsPage

\* q.timesAnswered || 0
OrZero(v) == IF v = Absent THEN 0 ELSE v[1]

\* questions.reduce((sum, q) => sum + (q.timesAnswered || 0), 0)
RECURSIVE SumTimesAnswered(_)
SumTimesAnswered(qs) ==
    IF Len(qs) = 0 THEN 0
    ELSE OrZero(Head(qs).timesAnswered) + SumTimesAnswered(Tail(qs))

\* Mutant: the reduce of totalSkipped reads timesAnswered.
SumTimesSkipped_ReadsAnswered(qs) == SumTimesAnswered(qs)

\* questions.reduce((sum, q) => sum + (q.timesSkipped || 0), 0)
RECURSIVE SumTimesSkipped(_)
SumTimesSkipped(qs) ==
    IF Len(qs) = 0 THEN 0
    ELSE OrZero(Head(qs).timesSkipped) + SumTimesSkipped(Tail(qs))

\* Math.round(num / den) for num >= 0, den > 0: the nearest integer, a half going
\* up.  The code rounds the double (correct / rawTotal) * totalAnswered; the two
\* agree for every rawTotal below 22, which covers the inputs drawn here.
RoundDiv(num, den) == (2 * num + den) \div (2 * den)

\* Mutant: the percentage is cut after its first decimal instead of rounded.
PercentToFixed1_Truncates(num, den) ==
    LET tenths == (1000 * num) \div den
    IN  ToString(tenths \div 10) \o "." \o ToString(tenths % 10)

\* (num / den * 100).toFixed(1) for num >= 0, den > 0: the decimal string of the
\* value rounded to one digit, a half going up.  The code formats the double
\* (num / den) * 100; the two agree for every den below 80.
PercentToFixed1(num, den) ==
    LET tenths == RoundDiv(1000 * num, den)
    IN  ToString(tenths \div 10) \o "." \o ToString(tenths % 10)

TotalAnswered(qs) == SumTimesAnswered(qs)

TotalSkipped(qs) == SumTimesSkipped(qs)

TotalResponses(qs) == TotalAnswered(qs) + TotalSkipped(qs)

OverallSkipRate(qs) ==
    IF TotalResponses(qs) > 0
    THEN PercentToFixed1(TotalSkipped(qs), TotalResponses(qs))
    ELSE "0.0"

\* Mutant: the buckets follow the alphabetical order of the level names.
LevelAnswerCounts_Alphabetical(qs) ==
    LET sorted == <<"Advanced", "Beginner", "Intermediate">>
    IN  [i \in 1..Len(sorted) |->
            SumTimesAnswered(SelectSeq(qs, LAMBDA q : q.questionLevel = sorted[i]))]

\* LEVELS.map(level => questions.filter(q => q.questionLevel === level).reduce(...))
LevelAnswerCounts(qs) ==
    [i \in 1..Len(LEVELS) |->
        SumTimesAnswered(SelectSeq(qs, LAMBDA q : q.questionLevel = LEVELS[i]))]

\* questions.filter(q => q.questionType === "Input")
InputQuestions(qs) == SelectSeq(qs, LAMBDA q : q.questionType = "Input")

\* The number of embedded options of the questions qs whose isCorrect is flag;
\* a question without an answers array contributes nothing.
RECURSIVE CountFlags(_, _)
CountFlags(qs, flag) ==
    IF Len(qs) = 0 THEN 0
    ELSE (IF Head(qs).answers = Absent THEN 0
          ELSE Len(SelectSeq(Head(qs).answers[1], LAMBDA a : a = Some(flag))))
         + CountFlags(Tail(qs), flag)

\* Mutant: the flags of the options of every question type are counted.
CorrectResponses_AllTypes(qs) == CountFlags(qs, TRUE)

CorrectResponses(qs) == CountFlags(InputQuestions(qs), TRUE)

IncorrectResponses(qs) == CountFlags(InputQuestions(qs), FALSE)

TotalAnsweredFromInputs(qs) == CorrectResponses(qs) + IncorrectResponses(qs)

\* Mutant: the correct share is scaled to totalResponses, the skips included.
FinalCorrectResponses_OfAllResponses(qs) ==
    IF TotalAnsweredFromInputs(qs) > 0
    THEN RoundDiv(CorrectResponses(qs) * TotalResponses(qs), TotalAnsweredFromInputs(qs))
    ELSE 0

FinalCorrectResponses(qs) ==
    IF TotalAnsweredFromInputs(qs) > 0
    THEN RoundDiv(CorrectResponses(qs) * TotalAnswered(qs), TotalAnsweredFromInputs(qs))
    ELSE 0

\* Mutant: the incorrect share is scaled and rounded on its own.
FinalIncorrectResponses_ScaledSeparately(qs) ==
    IF TotalAnsweredFromInputs(qs) > 0
    THEN RoundDiv(IncorrectResponses(qs) * TotalAnswered(qs), TotalAnsweredFromInputs(qs))
    ELSE 0

\* Mutant: without flags the incorrect share is zero as well.
FinalIncorrectResponses_ZeroWithoutFlags(qs) ==
    IF TotalAnsweredFromInputs(qs) > 0
    THEN TotalAnswered(qs) - FinalCorrectResponses(qs)
    ELSE 0

FinalIncorrectResponses(qs) == TotalAnswered(qs) - FinalCorrectResponses(qs)

\* Number(): the value of a string of decimal digits.
DigitOf(ch) == CHOOSE d \in 0..9 : ToString(d) = ch

IsDigit(ch) == \E d \in 0..9 : ToString(d) = ch

RECURSIVE ParseDigits(_)
ParseDigits(str) ==
    IF Len(str) = 0 THEN 0
    ELSE 10 * ParseDigits(SubSeq(str, 1, Len(str) - 1))
         + DigitOf(SubSeq(str, Len(str), Len(str)))

\* str is a decimal numeral with exactly one digit after the point, the form
\* toFixed(1) produces.
IsFixed1(str) ==
    /\ Len(str) >= 3
    /\ SubSeq(str, Len(str) - 1, Len(str) - 1) = "."
    /\ \A k \in (1..Len(str)) \ {Len(str) - 1} : IsDigit(SubSeq(str, k, k))

\* Number(str) for such a numeral, in tenths.
TenthsOf(str) ==
    10 * ParseDigits(SubSeq(str, 1, Len(str) - 2))
    + DigitOf(SubSeq(str, Len(str), Len(str)))

\* The map callback of the ranking: the question with its skipRate string.
WithSkipRate(q) ==
    LET total == OrZero(q.timesAnswered) + OrZero(q.timesSkipped)
        rate == IF total > 0 THEN PercentToFixed1(OrZero(q.timesSkipped), total)
                ELSE "0.0"
    IN  [f \in DOMAIN q \cup {"skipRate"} |-> IF f = "skipRate" THEN rate ELSE q[f]]

RECURSIVE MapWithSkipRate(_)
MapWithSkipRate(qs) ==
    IF Len(qs) = 0 THEN <<>>
    ELSE <<WithSkipRate(Head(qs))>> \o MapWithSkipRate(Tail(qs))

\* Mutant: the comparator subtracts the other way round (ascending order).
SkipRateCompare_Ascending(a, b) == TenthsOf(a.skipRate) - TenthsOf(b.skipRate)

\* The sort comparator (a, b) => Number(b.skipRate) - Number(a.skipRate), in
\* tenths: negative when a goes first, positive when b goes first.
SkipRateCompare(a, b) == TenthsOf(b.skipRate) - TenthsOf(a.skipRate)

\* Array.prototype.sort with that comparator.  The sort is stable (ECMAScript
\* 2019): x is placed behind every element that does not compare after it.
RECURSIVE InsertBySkipRate(_, _)
InsertBySkipRate(sorted, x) ==
    IF Len(sorted) = 0 THEN <<x>>
    ELSE IF SkipRateCompare(Head(sorted), x) <= 0
         THEN <<Head(sorted)>> \o InsertBySkipRate(Tail(sorted), x)
         ELSE <<x>> \o sorted

RECURSIVE SortBySkipRate(_)
SortBySkipRate(seq) ==
    IF Len(seq) = 0 THEN <<>>
    ELSE InsertBySkipRate(SortBySkipRate(SubSeq(seq, 1, Len(seq) - 1)), seq[Len(seq)])

\* Mutant: the ranking is not cut to its first three entries.
MostSkippedInputQuestions_NoSlice(qs) ==
    SortBySkipRate(MapWithSkipRate(InputQuestions(qs)))

\* inputQuestions.map(...).sort(...).slice(0, 3)
MostSkippedInputQuestions(qs) ==
    LET ranked == SortBySkipRate(MapWithSkipRate(InputQuestions(qs)))
    IN  SubSeq(ranked, 1, IF Len(ranked) < 3 THEN Len(ranked) ELSE 3)

\* The branch of the render: the chain of early returns.
ViewOf(ld, er, em) ==
    IF ld THEN "loading"
    ELSE IF em THEN "empty"
    ELSE IF Truthy(er) /\ ~em THEN "error"
    ELSE "ready"

View == ViewOf(loading, err, isEmpty)

\* What one render computes.  The header statistics are computed on every render;
\* the response distribution and the ranking only when the render reaches the
\* dashboard (view "ready"), the early returns of the other views coming first.
AnalyticsPage(qs, ld, er, em) ==
    LET ready == ViewOf(ld, er, em) = "ready"
    IN  [ view |-> ViewOf(ld, er, em),
          totalAnswered |-> TotalAnswered(qs),
          totalSkipped |-> TotalSkipped(qs),
          totalResponses |-> TotalResponses(qs),
          overallSkipRate |-> OverallSkipRate(qs),
          levelAnswerCounts |-> LevelAnswerCounts(qs),
          correctResponses |-> IF ready THEN CorrectResponses(qs) ELSE 0,
          incorrectResponses |-> IF ready THEN IncorrectResponses(qs) ELSE 0,
          responseDistribution |->
              IF ready
              THEN <<FinalCorrectResponses(qs), FinalIncorrectResponses(qs),
                     TotalSkipped(qs)>>
              ELSE <<>>,
          mostSkipped |-> IF ready THEN MostSkippedInputQuestions(qs) ELSE <<>> ]

---------------------------------------------------------------------------
\* Bounds and the collaborator's possible answers

\* Fetches initiated in one run (the mount fetch included).
MaxFetches == 3

QA  == Question("a", "Input", "Beginner", Some(10), Some(0),
                Some(<<Some(TRUE), Some(FALSE)>>))
QB1 == Question("b1", "MCQ", "Advanced", Some(0), Some(5), Absent)
QB2 == Question("b2", "Input", "Intermediate", Some(3), Absent, Some(<<>>))

\* What fetchAllQuestionsAndAnswersAdmin may resolve with.
FetchResults ==
    { [questions |-> <<>>, answers |-> <<>>],
      [questions |-> <<QA>>, answers |-> <<Answer("a", TRUE)>>],
      [questions |-> <<QB1, QB2>>, answers |-> <<>>] }

\* The messages it may reject with (NULL: the rejection carries no message).
FetchMessages ==
    { "404 no questions found",
      "No questions available",
      "Survey database is empty",
      "no questions yet",
      "Network error: server unreachable",
      NULL }

NoOutcome == [kind |-> "pending", questions |-> <<>>, answers |-> <<>>, message |-> NULL]

Resolved(data) ==
    [kind |-> "resolved", questions |-> data.questions, answers |-> data.answers,
     message |-> NULL]

Rejected(message) ==
    [kind |-> "rejected", questions |-> <<>>, answers |-> <<>>, message |-> message]

---------------------------------------------------------------------------
\* SurveyPage: values and initial state

Levels == {LEVELS[i] : i \in DOMAIN LEVELS}

\* A question of the working set; answers is optional.
SurveyQuestion(id, text, type, category, level, opts) ==
    [_id |-> id, question |-> text, questionType |-> type,
     questionCategory |-> category, questionLevel |-> level, timesAnswered |-> 0,
     answers |-> opts]

\* The empty question the page synthesizes for a level.
EmptyQuestion(lvl) == SurveyQuestion("", "", "Input", "", lvl, Absent)

\* emptyMap: one empty question per level.
EmptyMap == [lvl \in Levels |-> <<EmptyQuestion(lvl)>>]

\* No createQuestions / updateQuestions call was made yet.
NoCall == [calls |-> 0, op |-> "none", batch |-> <<>>]

SurveyPageInit ==
    /\ questionsByLevel = [lvl \in Levels |-> <<>>]
    /\ currentTab = "Beginner"
    /\ currentIndex = 0
    /\ mode = "edit"
    /\ showDeleteDialog = FALSE
    /\ levelToDelete = "Beginner"
    /\ showUIImmediately = FALSE
    /\ fetched = <<>>
    /\ error = ""
    /\ fetching = 0
    /\ deleting = <<>>
    /\ sent = NoCall
    /\ surveyMounted = "init"
    /\ step = [op |-> "init", arg |-> "", events |-> 0]

---------------------------------------------------------------------------
\* Initial state: the values of the useState calls, before the mount effect ran.
Init ==
    /\ questions = <<>>
    /\ answers = <<>>
    /\ loading = TRUE
    /\ err = NULL
    /\ isEmpty = FALSE
    /\ mounted = "init"
    /\ pending = {}
    /\ issued = 0
    /\ latest = NoOutcome
    /\ last = [op |-> "init", id |-> 0, from |-> "loading", outcome |-> NoOutcome]
    /\ rendered = AnalyticsPage(<<>>, TRUE, NULL, FALSE)
    /\ recentAnsweredIds = {}
    /\ SurveyPageInit

\* Mutant: the head of the handler does not call setLoading(true).
StartFetch_KeepsLoading(op) ==
    /\ loading' = loading
    /\ err' = NULL
    /\ isEmpty' = FALSE
    /\ issued' = issued + 1
    /\ pending' = pending \cup {issued + 1}
    /\ latest' = NoOutcome
    /\ last' = [op |-> op, id |-> issued + 1, from |-> View, outcome |-> NoOutcome]
    /\ UNCHANGED <<questions, answers, recentAnsweredIds, builderVars>>
    /\ rendered' = AnalyticsPage(questions', loading', err', isEmpty')

\* The synchronous head of handleRefresh / fetchData, up to the await.
StartFetch(op) ==
    /\ loading' = TRUE
    /\ err' = NULL
    /\ isEmpty' = FALSE
    /\ issued' = issued + 1
    /\ pending' = pending \cup {issued + 1}
    /\ latest' = NoOutcome
    /\ last' = [op |-> op, id |-> issued + 1, from |-> View, outcome |-> NoOutcome]
    /\ UNCHANGED <<questions, answers, recentAnsweredIds, builderVars>>
    /\ rendered' = AnalyticsPage(questions', loading', err', isEmpty')

\* The mount effect: the admin gate, then fetchData().
MountEffect ==
    /\ mounted = "init"
    /\ \E isAdmin \in BOOLEAN :
         IF ~isAdmin
         THEN /\ mounted' = "redirected"
              /\ last' = [op |-> "redirect", id |-> 0, from |-> View,
                          outcome |-> NoOutcome]
              /\ UNCHANGED <<questions, answers, loading, err, isEmpty, pending,
                             issued, latest, rendered, recentAnsweredIds,
                             builderVars>>
         ELSE /\ mounted' = "mounted"
              /\ StartFetch("mount")

\* A click on Refresh (shown by renderHeader in every view) or on Try Again.
HandleRefresh ==
    /\ mounted = "mounted"
    /\ issued < MaxFetches
    /\ StartFetch("refresh")
    /\ UNCHANGED mounted

\* Mutant: the try block does not call setIsEmpty.
FetchResolves_NoEmptyFlag(id, data) ==
    /\ id \in pending
    /\ questions' = data.questions
    /\ answers' = data.answers
    /\ isEmpty' = isEmpty
    /\ loading' = FALSE
    /\ pending' = pending \ {id}
    /\ latest' = IF id = issued THEN Resolved(data) ELSE latest
    /\ last' = [op |-> "resolve", id |-> id, from |-> View, outcome |-> Resolved(data)]
    /\ UNCHANGED <<err, mounted, issued, recentAnsweredIds, builderVars>>
    /\ rendered' = AnalyticsPage(questions', loading', err', isEmpty')

\* The awaited promise of fetch id resolves: the rest of the try block, then finally.
FetchResolves(id, data) ==
    /\ id \in pending
    /\ questions' = data.questions
    /\ answers' = data.answers
    /\ isEmpty' = (Len(data.questions) = 0)
    /\ loading' = FALSE
    /\ pending' = pending \ {id}
    /\ latest' = IF id = issued THEN Resolved(data) ELSE latest
    /\ last' = [op |-> "resolve", id |-> id, from |-> View, outcome |-> Resolved(data)]
    /\ UNCHANGED <<err, mounted, issued, recentAnsweredIds, builderVars>>
    /\ rendered' = AnalyticsPage(questions', loading', err', isEmpty')

\* The awaited promise of fetch id rejects: the catch block, then finally.
FetchRejects(id, message) ==
    /\ id \in pending
    /\ IF IsEmptySignal(message)
       THEN /\ isEmpty' = TRUE
            /\ questions' = <<>>
            /\ answers' = <<>>
            /\ err' = NoQuestionsMessage
       ELSE /\ err' = message
            /\ UNCHANGED <<isEmpty, questions, answers>>
    /\ loading' = FALSE
    /\ pending' = pending \ {id}
    /\ latest' = IF id = issued THEN Rejected(message) ELSE latest
    /\ last' = [op |-> "reject", id |-> id, from |-> View, outcome |-> Rejected(message)]
    /\ rendered' = AnalyticsPage(questions', loading', err', isEmpty')
    /\ UNCHANGED <<mounted, issued, recentAnsweredIds, builderVars>>

Next ==
    \/ MountEffect
    \/ HandleRefresh
    \/ \E id \in 1..MaxFetches, data \in FetchResults : FetchResolves(id, data)
    \/ \E id \in 1..MaxFetches, message \in FetchMessages : FetchRejects(id, message)

Spec == Init /\ [][Next]_vars

---------------------------------------------------------------------------
\* The second AnalyticsPage, which receives fetchAllQuestionsAndAnswers as a prop

\* The branch of its render: loading, then err, then the dashboard.
PropViewOf(ld, er) ==
    IF ld THEN "loading" ELSE IF Truthy(er) THEN "error" ELSE "ready"

\* new Set(sorted.slice(0, 5).map(a => a.questionId)); the answers delivered here
\* carry no createdAt, the comparator then yields NaN for every pair and the sort
\* leaves the order as fetched.
RecentIds(as) ==
    {as[i].questionId : i \in 1..(IF Len(as) < 5 THEN Len(as) ELSE 5)}

\* The mount effect: doFetch() up to its await.
PropMountEffect ==
    /\ mounted = "init"
    /\ mounted' = "mounted"
    /\ loading' = TRUE
    /\ err' = NULL
    /\ issued' = issued + 1
    /\ pending' = pending \cup {issued + 1}
    /\ latest' = NoOutcome
    /\ last' = [op |-> "mount", id |-> issued + 1, from |-> PropViewOf(loading, err),
                outcome |-> NoOutcome]
    /\ rendered' = [view |-> PropViewOf(loading', err')]
    /\ UNCHANGED <<questions, answers, isEmpty, recentAnsweredIds, builderVars>>

\* The promise awaited by doFetch resolves: the rest of the try block, then finally.
PropFetchResolves(data) ==
    /\ 1 \in pending
    /\ questions' = data.questions
    /\ answers' = data.answers
    /\ recentAnsweredIds' = RecentIds(data.answers)
    /\ loading' = FALSE
    /\ pending' = pending \ {1}
    /\ latest' = IF issued = 1 THEN Resolved(data) ELSE latest
    /\ last' = [op |-> "resolve", id |-> 1, from |-> PropViewOf(loading, err),
                outcome |-> Resolved(data)]
    /\ UNCHANGED <<err, isEmpty, mounted, issued, builderVars>>
    /\ rendered' = [view |-> PropViewOf(loading', err')]

\* The promise awaited by doFetch rejects: the catch block, then finally.
PropFetchRejects(message) ==
    /\ 1 \in pending
    /\ err' = message
    /\ loading' = FALSE
    /\ pending' = pending \ {1}
    /\ latest' = IF issued = 1 THEN Rejected(message) ELSE latest
    /\ last' = [op |-> "reject", id |-> 1, from |-> PropViewOf(loading, err),
                outcome |-> Rejected(message)]
    /\ UNCHANGED <<questions, answers, isEmpty, mounted, issued, recentAnsweredIds,
                   builderVars>>
    /\ rendered' = [view |-> PropViewOf(loading', err')]

\* A click on the header's refresh control (present in every view) or on Try
\* Again: fetchAllQuestionsAndAnswers() is called and nothing else is done.
PropRefresh ==
    /\ mounted = "mounted"
    /\ issued < MaxFetches
    /\ issued' = issued + 1
    /\ pending' = pending \cup {issued + 1}
    /\ latest' = NoOutcome
    /\ last' = [op |-> "refresh", id |-> issued + 1, from |-> PropViewOf(loading, err),
                outcome |-> NoOutcome]
    /\ UNCHANGED <<questions, answers, loading, err, isEmpty, mounted, rendered,
                   recentAnsweredIds, builderVars>>

\* The promise of a refresh call resolves: its then callback is empty.
PropRefreshResolves(id, data) ==
    /\ id \in pending /\ id >= 2
    /\ pending' = pending \ {id}
    /\ latest' = IF id = issued THEN Resolved(data) ELSE latest
    /\ last' = [op |-> "resolve", id |-> id, from |-> PropViewOf(loading, err),
                outcome |-> Resolved(data)]
    /\ UNCHANGED <<questions, answers, loading, err, isEmpty, mounted, issued,
                   rendered, recentAnsweredIds, builderVars>>

\* The promise of a refresh call rejects: nothing handles the rejection.
PropRefreshRejects(id, message) ==
    /\ id \in pending /\ id >= 2
    /\ pending' = pending \ {id}
    /\ latest' = IF id = issued THEN Rejected(message) ELSE latest
    /\ last' = [op |-> "reject", id |-> id, from |-> PropViewOf(loading, err),
                outcome |-> Rejected(message)]
    /\ UNCHANGED <<questions, answers, loading, err, isEmpty, mounted, issued,
                   rendered, recentAnsweredIds, builderVars>>

NextProp ==
    \/ PropMountEffect
    \/ \E data \in FetchResults : PropFetchResolves(data)
    \/ \E message \in FetchMessages : PropFetchRejects(message)
    \/ PropRefresh
    \/ \E id \in 2..MaxFetches, data \in FetchResults : PropRefreshResolves(id, data)
    \/ \E id \in 2..MaxFetches, message \in FetchMessages : PropRefreshRejects(id, message)

PropSpec == Init /\ [][NextProp]_vars

---------------------------------------------------------------------------
\* The statistics of one render, for question sets drawn from bounded sets

\* Questions in a fetched list.
MaxQuestions == 2

\* Largest value of a timesAnswered / timesSkipped counter.
MaxCount == 1

\* Embedded options of one question.
MaxOptions == 1

CounterValues == {Absent} \cup {Some(n) : n \in 0..MaxCount}

\* The three levels of LEVELS and one the page does not recognize.
LevelValues == {"Beginner", "Intermediate", "Advanced", "Expert"}

TypeValues == {"Input", "MCQ"}

\* Questions that differ in level and counters.
LevelQuestions ==
    { Question("q", "Input", level, answered, skipped, Absent) :
        level \in LevelValues, answered \in CounterValues, skipped \in CounterValues }

\* Questions that differ in type and counters.
TypeQuestions ==
    { Question("q", type, "Beginner", answered, skipped, Absent) :
        type \in TypeValues, answered \in CounterValues, skipped \in CounterValues }

\* The question set of the worked example: 10 answered, then 5 skipped.
ExampleTotals ==
    << Question("q1", "Input", "Beginner", Some(10), Some(0), Absent),
       Question("q2", "Input", "Advanced", Some(0), Some(5), Absent) >>

\* The mount fetch resolves with a list of LevelQuestions or of TypeQuestions.
ResolveTotals ==
    /\ 1 \in pending
    /\ \/ \E n \in 0..MaxQuestions : \E qs \in [1..n -> LevelQuestions] :
             FetchResolves(1, [questions |-> qs, answers |-> <<>>])
       \/ \E n \in 1..MaxQuestions : \E qs \in [1..n -> TypeQuestions] :
             FetchResolves(1, [questions |-> qs, answers |-> <<>>])
       \/ FetchResolves(1, [questions |-> ExampleTotals, answers |-> <<>>])

NextTotals == MountEffect \/ ResolveTotals

TotalsSpec == Init /\ [][NextTotals]_vars

\* An embedded option: isCorrect true, false, or not a boolean.
FlagValues == {Absent, Some(TRUE), Some(FALSE)}

\* The answers array of a question: absent, or up to MaxOptions options.
OptionLists ==
    {Absent} \cup UNION { {Some(opts) : opts \in [1..n -> FlagValues]} : n \in 0..MaxOptions }

\* Input questions that differ in answer count and embedded options,
\* multiple-choice questions with and without flagged options, and Input
\* questions that were skipped as well.
PieQuestions ==
    { Question("q", "Input", "Beginner", Some(answered), Absent, opts) :
        answered \in 0..MaxCount, opts \in OptionLists }
    \cup
    { Question("q", "MCQ", "Beginner", Some(answered), Absent, opts) :
        answered \in 0..MaxCount,
        opts \in {Absent, Some(<<Some(TRUE), Some(FALSE)>>)} }
    \cup
    { Question("q", "Input", "Beginner", Some(answered), Some(1), opts) :
        answered \in 0..MaxCount,
        opts \in {Absent, Some(<<Some(TRUE)>>)} }

\* The question set of the worked example: two correct options and one incorrect
\* on an Input question answered 30 times.
ExamplePie ==
    << Question("q1", "Input", "Beginner", Some(30), Absent,
                Some(<<Some(TRUE), Some(TRUE), Some(FALSE)>>)) >>

\* The mount fetch resolves with a list of PieQuestions.
ResolvePie ==
    /\ 1 \in pending
    /\ \/ \E n \in 0..MaxQuestions : \E qs \in [1..n -> PieQuestions] :
             FetchResolves(1, [questions |-> qs, answers |-> <<>>])
       \/ FetchResolves(1, [questions |-> ExamplePie, answers |-> <<>>])

NextPie == MountEffect \/ ResolvePie

PieSpec == Init /\ [][NextPie]_vars

\* Questions in a fetched list of the ranking inputs.
MaxRanked == 5

\* Input questions with skip rates 0.0 (answered only, and never shown), 50.0,
\* 66.7 and 100.0, and a multiple-choice question skipped every time.
RankQuestions ==
    { Question("q", "Input", "Beginner", Some(1), Some(0), Absent),
      Question("q", "Input", "Beginner", Absent, Absent, Absent),
      Question("q", "Input", "Beginner", Some(1), Some(1), Absent),
      Question("q", "Input", "Beginner", Some(1), Some(2), Absent),
      Question("q", "Input", "Beginner", Some(0), Some(1), Absent),
      Question("q", "MCQ", "Beginner", Some(0), Some(1), Absent) }

\* The mount fetch resolves with a list of RankQuestions.
ResolveRank ==
    /\ 1 \in pending
    /\ \E n \in 0..MaxRanked : \E qs \in [1..n -> RankQuestions] :
          FetchResolves(1, [questions |-> qs, answers |-> <<>>])

NextRank == MountEffect \/ ResolveRank

RankSpec == Init /\ [][NextRank]_vars

---------------------------------------------------------------------------
\* SurveyPage: effects and handlers

Max(a, b) == IF a > b THEN a ELSE b

Min(a, b) == IF a < b THEN a ELSE b

\* list.filter((_, i) => i !== index), index counted from 0.
RemoveAt(list, index) ==
    IF index < 0 \/ index >= Len(list) THEN list
    ELSE [k \in 1..(Len(list) - 1) |-> IF k <= index THEN list[k] ELSE list[k + 1]]

\* String.prototype.trim, for strings padded with spaces.
RECURSIVE Trim(_)
Trim(str) ==
    IF Len(str) = 0 THEN str
    ELSE IF SubSeq(str, 1, 1) = " " THEN Trim(SubSeq(str, 2, Len(str)))
    ELSE IF SubSeq(str, Len(str), Len(str)) = " " THEN Trim(SubSeq(str, 1, Len(str) - 1))
    ELSE str

\* The map the populate effect builds from the fetched questions: each question
\* of a recognized level in its level's list, in fetched order, and an empty
\* question for a level left without any.
PopulateByLevel(qs) ==
    [lvl \in Levels |->
        LET ofLevel == SelectSeq(qs, LAMBDA q : q.questionLevel = lvl)
        IN  IF Len(ofLevel) = 0 THEN <<EmptyQuestion(lvl)>> ELSE ofLevel]

\* QuestionCard, which carries the prev, next, delete and update controls, is
\* rendered when questions[currentIndex] exists.
CardShown ==
    /\ surveyMounted = "mounted"
    /\ currentIndex >= 0
    /\ currentIndex < Len(questionsByLevel[currentTab])

\* The effects of the first render: the admin gate; then the empty questions, the
\* flag that shows the editor, and the call of fetchQuestions.
SurveyMountEffect ==
    /\ surveyMounted = "init"
    /\ \E isAdmin \in BOOLEAN :
         IF ~isAdmin
         THEN /\ surveyMounted' = "redirected"
              /\ step' = [op |-> "redirect", arg |-> "", events |-> step.events]
              /\ UNCHANGED <<questionsByLevel, showUIImmediately, fetching>>
         ELSE /\ surveyMounted' = "mounted"
              /\ questionsByLevel' = EmptyMap
              /\ showUIImmediately' = TRUE
              /\ fetching' = fetching + 1
              /\ step' = [op |-> "mount", arg |-> "", events |-> step.events]
    /\ UNCHANGED <<currentTab, currentIndex, mode, showDeleteDialog, levelToDelete,
                   fetched, error, deleting, sent, pageVars>>

\* fetchQuestions resolves: the hook holds the fetched questions, and the populate
\* effect, which depends on them, rebuilds the working set unless there are none.
FetchQuestionsResolves(data) ==
    /\ fetching > 0
    /\ fetching' = fetching - 1
    /\ fetched' = data
    /\ questionsByLevel' =
          IF ~showUIImmediately \/ Len(data) = 0 THEN questionsByLevel
          ELSE PopulateByLevel(data)
    /\ step' = [op |-> "fetched", arg |-> "", events |-> step.events]
    /\ UNCHANGED <<currentTab, currentIndex, mode, showDeleteDialog, levelToDelete,
                   showUIImmediately, error, deleting, sent, surveyMounted, pageVars>>

\* fetchQuestions fails: the hook holds the error message.
FetchQuestionsRejects(message) ==
    /\ fetching > 0
    /\ fetching' = fetching - 1
    /\ error' = message
    /\ step' = [op |-> "fetch failed", arg |-> "", events |-> step.events]
    /\ UNCHANGED <<questionsByLevel, currentTab, currentIndex, mode, showDeleteDialog,
                   levelToDelete, showUIImmediately, fetched, deleting, sent,
                   surveyMounted, pageVars>>

onSelectQuestion(level, idx) ==
    /\ surveyMounted = "mounted"
    /\ currentTab' = level
    /\ currentIndex' = idx
    /\ step' = [op |-> "onSelectQuestion", arg |-> level, events |-> step.events + 1]
    /\ UNCHANGED <<questionsByLevel, mode, showDeleteDialog, levelToDelete,
                   showUIImmediately, fetched, error, fetching, deleting, sent,
                   surveyMounted, pageVars>>

onAddQuestion(level) ==
    LET list == questionsByLevel[level]
        lastCat == IF Len(list) = 0 THEN "" ELSE list[Len(list)].questionCategory
        newQ == SurveyQuestion("", "", "Input", lastCat, level, Absent)
    IN  /\ surveyMounted = "mounted"
        /\ questionsByLevel' = [questionsByLevel EXCEPT ![level] = Append(list, newQ)]
        /\ currentTab' = level
        /\ currentIndex' = Len(list)
        /\ step' = [op |-> "onAddQuestion", arg |-> level, events |-> step.events + 1]
        /\ UNCHANGED <<mode, showDeleteDialog, levelToDelete, showUIImmediately,
                       fetched, error, fetching, deleting, sent, surveyMounted,
                       pageVars>>

\* onPrev={() => setCurrentIndex((i) => Math.max(i - 1, 0))}
onPrev ==
    /\ CardShown
    /\ currentIndex' = Max(currentIndex - 1, 0)
    /\ step' = [op |-> "onPrev", arg |-> "", events |-> step.events + 1]
    /\ UNCHANGED <<questionsByLevel, currentTab, mode, showDeleteDialog, levelToDelete,
                   showUIImmediately, fetched, error, fetching, deleting, sent,
                   surveyMounted, pageVars>>

\* onNext={() => setCurrentIndex((i) => Math.min(i + 1, list.length - 1))}
onNext ==
    /\ CardShown
    /\ currentIndex' = Min(currentIndex + 1, Len(questionsByLevel[currentTab]) - 1)
    /\ step' = [op |-> "onNext", arg |-> "", events |-> step.events + 1]
    /\ UNCHANGED <<questionsByLevel, currentTab, mode, showDeleteDialog, levelToDelete,
                   showUIImmediately, fetched, error, fetching, deleting, sent,
                   surveyMounted, pageVars>>

\* The tail of onDeleteCurrent, with the list, tab and index its render captured.
DeleteCurrentTail(tab, index, list) ==
    /\ questionsByLevel' = [questionsByLevel EXCEPT ![tab] = RemoveAt(list, index)]
    /\ currentIndex' = Max(currentIndex - 1, 0)

\* onDeleteCurrent up to its await: it returns when the list has one entry, runs to
\* its end for an unsaved question and is suspended at deleteQuestions for a saved
\* one.
onDeleteCurrent ==
    LET list == questionsByLevel[currentTab]
        toDelete == list[currentIndex + 1]
    IN  /\ CardShown
        /\ step' = [op |-> "onDeleteCurrent", arg |-> currentTab,
                    events |-> step.events + 1]
        /\ IF Len(list) <= 1
           THEN UNCHANGED <<questionsByLevel, currentIndex, deleting>>
           ELSE IF toDelete._id # ""
           THEN /\ deleting' = Append(deleting,
                                      [kind |-> "current", tab |-> currentTab,
                                       index |-> currentIndex, list |-> list])
                /\ UNCHANGED <<questionsByLevel, currentIndex>>
           ELSE /\ DeleteCurrentTail(currentTab, currentIndex, list)
                /\ UNCHANGED deleting
        /\ UNCHANGED <<currentTab, mode, showDeleteDialog, levelToDelete,
                       showUIImmediately, fetched, error, fetching, sent,
                       surveyMounted, pageVars>>

onDeleteAllQuestions(level) ==
    /\ surveyMounted = "mounted"
    /\ levelToDelete' = level
    /\ showDeleteDialog' = TRUE
    /\ step' = [op |-> "onDeleteAllQuestions", arg |-> level, events |-> step.events + 1]
    /\ UNCHANGED <<questionsByLevel, currentTab, currentIndex, mode, showUIImmediately,
                   fetched, error, fetching, deleting, sent, surveyMounted, pageVars>>

\* The Cancel button of the dialog.
CancelDeleteAll ==
    /\ showDeleteDialog
    /\ showDeleteDialog' = FALSE
    /\ step' = [op |-> "cancel", arg |-> "", events |-> step.events + 1]
    /\ UNCHANGED <<questionsByLevel, currentTab, currentIndex, mode, levelToDelete,
                   showUIImmediately, fetched, error, fetching, deleting, sent,
                   surveyMounted, pageVars>>

\* The tail of confirmDeleteAllQuestions, with the level its render captured.
DeleteAllTail(level) ==
    /\ questionsByLevel' = [questionsByLevel EXCEPT ![level] = <<EmptyQuestion(level)>>]
    /\ currentIndex' = 0
    /\ showDeleteDialog' = FALSE

\* confirmDeleteAllQuestions up to its await: suspended at deleteQuestions when the
\* level holds a saved question, otherwise run to its end.
confirmDeleteAllQuestions ==
    LET toDelete == SelectSeq(questionsByLevel[levelToDelete], LAMBDA q : q._id # "")
    IN  /\ showDeleteDialog
        /\ step' = [op |-> "confirmDeleteAllQuestions", arg |-> levelToDelete,
                    events |-> step.events + 1]
        /\ IF Len(toDelete) > 0
           THEN /\ deleting' = Append(deleting,
                                      [kind |-> "all", tab |-> levelToDelete,
                                       index |-> 0, list |-> <<>>])
                /\ UNCHANGED <<questionsByLevel, currentIndex, showDeleteDialog>>
           ELSE /\ DeleteAllTail(levelToDelete)
                /\ UNCHANGED deleting
        /\ UNCHANGED <<currentTab, mode, levelToDelete, showUIImmediately, fetched,
                       error, fetching, sent, surveyMounted, pageVars>>

\* deleteQuestions resolves for the suspended handler at position k: its tail runs.
DeleteQuestionsResolves(k) ==
    /\ k \in DOMAIN deleting
    /\ deleting' = RemoveAt(deleting, k - 1)
    /\ step' = [op |-> "deleted " \o deleting[k].kind, arg |-> deleting[k].tab,
                events |-> step.events]
    /\ IF deleting[k].kind = "current"
       THEN /\ DeleteCurrentTail(deleting[k].tab, deleting[k].index, deleting[k].list)
            /\ UNCHANGED showDeleteDialog
       ELSE DeleteAllTail(deleting[k].tab)
    /\ UNCHANGED <<currentTab, mode, levelToDelete, showUIImmediately, fetched, error,
                   fetching, sent, surveyMounted, pageVars>>

\* deleteQuestions rejects: the handler ends with the rejection, its tail skipped.
DeleteQuestionsRejects(k) ==
    /\ k \in DOMAIN deleting
    /\ deleting' = RemoveAt(deleting, k - 1)
    /\ step' = [op |-> "delete failed", arg |-> deleting[k].tab,
                events |-> step.events]
    /\ UNCHANGED <<questionsByLevel, currentTab, currentIndex, mode, showDeleteDialog,
                   levelToDelete, showUIImmediately, fetched, error, fetching, sent,
                   surveyMounted, pageVars>>

\* The entry onUpdateQuestion writes for a field other than a recognized level:
\* the field set to value, the answers dropped when the type becomes Input.
WithField(q, field, value) ==
    [f \in DOMAIN q |->
        IF f = field THEN value
        ELSE IF f = "answers" /\ field = "questionType" /\ value = "Input" THEN Absent
        ELSE q[f]]

onUpdateQuestion(field, value) ==
    LET list == questionsByLevel[currentTab]
        q == list[currentIndex + 1]
    IN  /\ CardShown
        /\ IF field = "questionLevel" /\ value \in Levels
           THEN LET updated == [q EXCEPT !.questionLevel = value]
                    oldList == RemoveAt(list, currentIndex)
                IN  /\ questionsByLevel' =
                          [[questionsByLevel EXCEPT ![currentTab] = oldList]
                              EXCEPT ![value] = Append(questionsByLevel[value], updated)]
                    /\ currentTab' = value
                    /\ currentIndex' = Len(questionsByLevel[value])
                    /\ step' = [op |-> "reassign", arg |-> value,
                                events |-> step.events + 1]
           ELSE /\ questionsByLevel' =
                      [questionsByLevel EXCEPT
                          ![currentTab][currentIndex + 1] = WithField(q, field, value)]
                /\ step' = [op |-> "update", arg |-> field, events |-> step.events + 1]
                /\ UNCHANGED <<currentTab, currentIndex>>
        /\ error' = ""
        /\ UNCHANGED <<mode, showDeleteDialog, levelToDelete, showUIImmediately,
                       fetched, fetching, deleting, sent, surveyMounted, pageVars>>

\* Mutant: the question text is tested without trim().
Completed_NoTrim(q) == q.question # "" /\ q.questionCategory # "" /\ q.questionLevel # ""

\* q.question.trim() && q.questionCategory && q.questionLevel
Completed(q) == Trim(q.question) # "" /\ q.questionCategory # "" /\ q.questionLevel # ""

\* LEVELS.flatMap((lvl) => questionsByLevel[lvl]).filter(...)
AllQs ==
    SelectSeq(questionsByLevel[LEVELS[1]] \o questionsByLevel[LEVELS[2]]
                \o questionsByLevel[LEVELS[3]],
              Completed)

\* handleCreateNew and handleUpdate: after window.confirm, the batch goes to
\* createQuestions or updateQuestions.
SendBatch(op, confirmed) ==
    /\ surveyMounted = "mounted"
    /\ sent' = IF confirmed
               THEN [calls |-> sent.calls + 1, op |-> op, batch |-> AllQs]
               ELSE sent
    /\ step' = [op |-> IF confirmed THEN op ELSE "declined", arg |-> op,
                events |-> step.events + 1]
    /\ UNCHANGED <<questionsByLevel, currentTab, currentIndex, mode, showDeleteDialog,
                   levelToDelete, showUIImmediately, fetched, error, fetching,
                   deleting, surveyMounted, pageVars>>

handleCreateNew(confirmed) == SendBatch("createQuestions", confirmed)

handleUpdate(confirmed) == SendBatch("updateQuestions", confirmed)

switchToCreateMode(confirmed) ==
    /\ surveyMounted = "mounted"
    /\ IF confirmed
       THEN /\ mode' = "create"
            /\ questionsByLevel' = EmptyMap
            /\ currentIndex' = 0
       ELSE UNCHANGED <<mode, questionsByLevel, currentIndex>>
    /\ step' = [op |-> "switchToCreateMode", arg |-> "", events |-> step.events + 1]
    /\ UNCHANGED <<currentTab, showDeleteDialog, levelToDelete, showUIImmediately,
                   fetched, error, fetching, deleting, sent, surveyMounted, pageVars>>

\* switchToEditMode up to its await of fetchQuestions.
switchToEditMode ==
    /\ surveyMounted = "mounted"
    /\ mode' = "edit"
    /\ fetching' = fetching + 1
    /\ step' = [op |-> "switchToEditMode", arg |-> "", events |-> step.events + 1]
    /\ UNCHANGED <<questionsByLevel, currentTab, currentIndex, showDeleteDialog,
                   levelToDelete, showUIImmediately, fetched, error, deleting, sent,
                   surveyMounted, pageVars>>

---------------------------------------------------------------------------
\* SurveyPage: bounds, inputs and specifications

\* Entries in one level's list.
MaxEntries == 3

\* fetchQuestions calls awaited at once.
MaxFetching == 1

\* Delete handlers suspended at once.
MaxDeleting == 1

\* createQuestions / updateQuestions calls in one run.
MaxCalls == 1

\* User events (handler calls) in one run.
MaxEvents == 4

MayAct == step.events < MaxEvents

SB1 == SurveyQuestion("b1", "Who?", "Input", "Grammar", "Beginner", Absent)
SB2 == SurveyQuestion("b2", "What?", "Input", "Grammar", "Beginner", Absent)
SA1 == SurveyQuestion("a1", "Which?", "MCQ", "Syntax", "Advanced",
                      Some(<<Some(TRUE), Some(FALSE)>>))
SX1 == SurveyQuestion("x1", "Where?", "Input", "Syntax", "Expert", Absent)

\* What fetchQuestions may deliver.
FetchedQuestionSets == { <<>>, <<SB1, SB2, SA1>> }

\* The level lists fit the bound after the populate effect.
Fits(data) == \A lvl \in Levels : Len(PopulateByLevel(data)[lvl]) <= MaxEntries

\* The field edits of the structure runs: a new text, and every level.
StructureUpdates == {<<"question", "Edited?">>} \cup {<<"questionLevel", lvl>> : lvl \in Levels}

\* The events of the structure runs.  The Sidebar selects existing entries; the
\* delete dialog is an overlay that disables none of the controls beneath it.
NextBuilder ==
    \/ SurveyMountEffect
    \/ \E data \in FetchedQuestionSets : Fits(data) /\ FetchQuestionsResolves(data)
    \/ FetchQuestionsRejects("Failed to fetch questions")
    \/ \E level \in Levels : \E idx \in 0..(Len(questionsByLevel[level]) - 1) :
          MayAct /\ onSelectQuestion(level, idx)
    \/ \E level \in Levels :
          Len(questionsByLevel[level]) < MaxEntries /\ MayAct /\ onAddQuestion(level)
    \/ MayAct /\ onPrev
    \/ MayAct /\ onNext
    \/ Len(deleting) < MaxDeleting /\ MayAct /\ onDeleteCurrent
    \/ \E level \in Levels : MayAct /\ onDeleteAllQuestions(level)
    \/ MayAct /\ CancelDeleteAll
    \/ Len(deleting) < MaxDeleting /\ MayAct /\ confirmDeleteAllQuestions
    \/ \E k \in 1..MaxDeleting : DeleteQuestionsResolves(k)
    \/ \E k \in 1..MaxDeleting : DeleteQuestionsRejects(k)
    \/ \E u \in StructureUpdates :
          /\ u[1] = "questionLevel" => Len(questionsByLevel[u[2]]) < MaxEntries
          /\ MayAct /\ onUpdateQuestion(u[1], u[2])
    \/ \E confirmed \in BOOLEAN : MayAct /\ switchToCreateMode(confirmed)
    \/ fetching < MaxFetching /\ MayAct /\ switchToEditMode

BuilderSpec == Init /\ [][NextBuilder]_vars

\* What fetchQuestions may deliver in the batch runs; one question has a level
\* the page does not recognize.
BatchQuestionSets == { <<>>, <<SB1, SB2, SA1>>, <<SB1, SX1>> }

\* The field edits of the batch runs: blank and padded texts, an empty and a
\* non-empty category, both types, and a level cleared.
BatchUpdates ==
    { <<"question", "  ">>, <<"question", " Why? ">>,
      <<"questionCategory", "">>, <<"questionCategory", "Syntax">>,
      <<"questionType", "Input">>, <<"questionType", "MCQ">>,
      <<"questionLevel", "">> }

NextBatch ==
    \/ SurveyMountEffect
    \/ \E data \in BatchQuestionSets : Fits(data) /\ FetchQuestionsResolves(data)
    \/ \E level \in Levels : \E idx \in 0..(Len(questionsByLevel[level]) - 1) :
          MayAct /\ onSelectQuestion(level, idx)
    \/ \E level \in Levels :
          Len(questionsByLevel[level]) < MaxEntries /\ MayAct /\ onAddQuestion(level)
    \/ \E u \in BatchUpdates : MayAct /\ onUpdateQuestion(u[1], u[2])
    \/ \E confirmed \in BOOLEAN :
          MayAct /\ (confirmed => sent.calls < MaxCalls) /\ handleCreateNew(confirmed)
    \/ \E confirmed \in BOOLEAN :
          MayAct /\ (confirmed => sent.calls < MaxCalls) /\ handleUpdate(confirmed)

BatchSpec == Init /\ [][NextBatch]_vars

---------------------------------------------------------------------------
\* Properties of the view state machine (checked under Spec)

\* The markers the catch block looks for.
EmptyMarkers == {"404", "No questions", "empty"}

HasEmptyMarker(message) ==
    message # NULL /\ \E marker \in EmptyMarkers : Includes(message, marker)

\* What the fetch with outcome o leaves in the component state when it is the only
\* fetch of its cycle: its head cleared err and isEmpty, its tail set the rest.
StateProducedBy(o) ==
    IF o.kind = "resolved"
    THEN /\ questions = o.questions
         /\ answers = o.answers
         /\ isEmpty = (Len(o.questions) = 0)
         /\ err = NULL
    ELSE IF HasEmptyMarker(o.message)
    THEN /\ questions = <<>>
         /\ answers = <<>>
         /\ isEmpty
         /\ err = NoQuestionsMessage
    ELSE /\ err = o.message
         /\ ~isEmpty

\* C3: when an earlier-initiated fetch completes after the most recently initiated
\* one, the questions, answers, empty flag and error message held at the end are
\* those produced by the most recently initiated fetch, never those of the
\* earlier one.
C3_StaleResponseDiscard ==
    (pending = {} /\ last.op \in {"resolve", "reject"} /\ last.id < issued)
       => StateProducedBy(latest)

\* C4 as stated: loading -> empty | error | ready, ready -> loading and
\* error -> loading are the only changes of view.
SpecTransitions ==
    { <<"loading", "empty">>, <<"loading", "error">>, <<"loading", "ready">>,
      <<"ready", "loading">>, <<"error", "loading">> }

C4_OnlySpecTransitions ==
    [][View' # View => <<View, View'>> \in SpecTransitions]_vars

\* C4 amended: initiating a fetch always shows loading, from any view (the empty
\* view has the refresh control too); the view leaves loading only when a fetch
\* completes; and a change among empty, error and ready that bypasses loading
\* happens only when a fetch completes that was still outstanding after the view
\* had left loading, which takes two overlapping fetches.
C4_ViewTransitions ==
    [][ /\ issued' # issued => View' = "loading"
        /\ (View # "loading" /\ pending # {}) => issued >= 2
        /\ View' # View =>
              \/ issued' = issued + 1 /\ View' = "loading"
              \/ /\ View = "loading"
                 /\ pending' # pending
                 /\ View' \in {"empty", "error", "ready"}
              \/ /\ View # "loading"
                 /\ pending # {} /\ pending' # pending
                 /\ View' \in {"empty", "error", "ready"}
      ]_vars

\* C4 witness: a refresh requested from the empty view leads back to loading.
C4_RefreshFromEmpty ==
    last.op = "refresh" /\ last.from = "empty" /\ View = "loading"

C6_ZeroQuestionsIsEmpty ==
    (last.op = "resolve" /\ Len(last.outcome.questions) = 0) => View = "empty"

\* C6 witness: a refresh (not the mount fetch) was the last fetch to complete and
\* resolved with zero questions.
C6_RefreshResolvedEmpty ==
    /\ last.op = "resolve" /\ last.id > 1
    /\ Len(last.outcome.questions) = 0
    /\ issued = 2 /\ pending = {}
    /\ View = "empty"

\* C7: empty and error are never conflated: a fetch failing with a message that
\* contains none of the empty markers ends in the error state carrying that
\* message, never in the empty state, and a fetch classified as empty does not
\* leave the view in error.
C7_EmptyAndErrorDistinct ==
    /\ ~(View = "empty" /\ View = "error")
    /\ (last.op = "reject" /\ last.outcome.message # NULL
          /\ ~HasEmptyMarker(last.outcome.message))
       => (View = "error" /\ err = last.outcome.message)
    /\ (last.op = "reject" /\ HasEmptyMarker(last.outcome.message))
       => View # "error"
    /\ (last.op = "resolve" /\ Len(last.outcome.questions) = 0)
       => View # "error"

\* C14: while a fetch is outstanding the view is loading: no fetch is pending
\* while the view shows empty, error or ready.
C14_PendingMeansLoading == pending # {} => View = "loading"

\* C15: after a refresh whose fetch succeeded, the held questions and answers are
\* exactly the result of that fetch (checked for the second AnalyticsPage under
\* PropSpec; it holds of the first under Spec).
C15_RefreshReplacesData ==
    (last.op = "resolve" /\ last.id >= 2) =>
        (questions = last.outcome.questions /\ answers = last.outcome.answers)

---------------------------------------------------------------------------
\* Properties of the rendered statistics (checked under TotalsSpec and PieSpec)

\* A counter of the question at index i of the held list, an absent one being 0.
AnsweredAt(i) ==
    IF questions[i].timesAnswered = Absent THEN 0 ELSE questions[i].timesAnswered[1]

SkippedAt(i) ==
    IF questions[i].timesSkipped = Absent THEN 0 ELSE questions[i].timesSkipped[1]

RECURSIVE AnsweredOver(_)
AnsweredOver(indices) ==
    IF indices = {} THEN 0
    ELSE LET i == CHOOSE j \in indices : TRUE
         IN  AnsweredAt(i) + AnsweredOver(indices \ {i})

RECURSIVE SkippedOver(_)
SkippedOver(indices) ==
    IF indices = {} THEN 0
    ELSE LET i == CHOOSE j \in indices : TRUE
         IN  SkippedAt(i) + SkippedOver(indices \ {i})

\* C8: totalAnswered is the sum of timesAnswered and totalSkipped the sum of
\* timesSkipped over all held questions of any level or type, an absent counter
\* counting as 0, and totalResponses is the sum of the two.
C8_Totals ==
    /\ rendered.totalAnswered = AnsweredOver(DOMAIN questions)
    /\ rendered.totalSkipped = SkippedOver(DOMAIN questions)
    /\ rendered.totalResponses = rendered.totalAnswered + rendered.totalSkipped

\* C8 witness: the worked example gives 15 responses, 10 answered, 5 skipped.
C8_Example ==
    /\ questions = ExampleTotals
    /\ rendered.totalResponses = 15
    /\ rendered.totalAnswered = 10
    /\ rendered.totalSkipped = 5

\* C9: overallSkipRate is "0.0" when there are no responses; otherwise it is a
\* numeral with one decimal digit that is nearest to totalSkipped /
\* totalResponses * 100 (within half a tenth of it); it always lies between 0.0
\* and 100.0.
C9_OverallSkipRate ==
    LET total == rendered.totalResponses
        skipped == rendered.totalSkipped
        rate == rendered.overallSkipRate
    IN  /\ total = 0 => rate = "0.0"
        /\ IsFixed1(rate)
        /\ TenthsOf(rate) >= 0 /\ TenthsOf(rate) <= 1000
        /\ total > 0 =>
              /\ (2 * TenthsOf(rate) - 1) * total <= 2000 * skipped
              /\ 2000 * skipped <= (2 * TenthsOf(rate) + 1) * total

\* C9 witness: 5 skipped of 15 responses is shown as "33.3".
C9_Example ==
    /\ rendered.totalSkipped = 5
    /\ rendered.totalResponses = 15
    /\ rendered.overallSkipRate = "33.3"

\* C10: the per-level answer counts have length 3, the entry at position i is the
\* sum of timesAnswered over the questions of the i-th level of Beginner,
\* Intermediate, Advanced whatever the order of the data, and their sum is the sum
\* over the questions with one of these three levels.
C10_LevelAnswerCounts ==
    LET counts == rendered.levelAnswerCounts
        fixed == <<"Beginner", "Intermediate", "Advanced">>
        AtLevel(level) == {j \in DOMAIN questions : questions[j].questionLevel = level}
    IN  /\ Len(counts) = 3
        /\ \A i \in 1..3 : counts[i] = AnsweredOver(AtLevel(fixed[i]))
        /\ counts[1] + counts[2] + counts[3] =
              AnsweredOver(AtLevel("Beginner") \cup AtLevel("Intermediate")
                           \cup AtLevel("Advanced"))

\* C10 witness: an answered question of an unrecognized level, listed first, counts
\* in totalAnswered but in no bucket, and the Advanced question after it fills the
\* third bucket.
C10_OrderAndUnrecognized ==
    /\ Len(questions) = 2
    /\ questions[1].questionLevel = "Expert"
    /\ questions[2].questionLevel = "Advanced"
    /\ rendered.levelAnswerCounts = <<0, 0, 1>>
    /\ rendered.totalAnswered = 2

\* The isCorrect flags equal to flag on the embedded options of the held Input
\* questions.
FlagsOfInputs(flag) ==
    LET withOptions == { i \in DOMAIN questions :
                           /\ questions[i].questionType = "Input"
                           /\ questions[i].answers # Absent }
    IN  UNION { { <<i, k>> : k \in { n \in 1..Len(questions[i].answers[1]) :
                                        questions[i].answers[1][n] = Some(flag) } } :
                i \in withOptions }

RawTotal == Cardinality(FlagsOfInputs(TRUE)) + Cardinality(FlagsOfInputs(FALSE))

FinalCorrect == rendered.responseDistribution[1]

FinalIncorrect == rendered.responseDistribution[2]

\* C1: on the dashboard, finalCorrect + finalIncorrect equals totalAnswered for
\* any counters and any combination of flags, none at all included.
C1_CorrectPlusIncorrect ==
    rendered.view = "ready" =>
        FinalCorrect + FinalIncorrect = AnsweredOver(DOMAIN questions)

\* C1 witness: one correct and one incorrect flag with one answer; the half rounds
\* up to one correct answer and leaves no incorrect one.
C1_HalfRoundsUp ==
    /\ rendered.view = "ready"
    /\ Cardinality(FlagsOfInputs(TRUE)) = 1
    /\ Cardinality(FlagsOfInputs(FALSE)) = 1
    /\ rendered.totalAnswered = 1
    /\ FinalCorrect = 1 /\ FinalIncorrect = 0

\* C2 as stated: without any flag on the Input questions both final counts are
\* zero, whatever totalAnswered is.
C2_BothZeroWithoutFlags ==
    (rendered.view = "ready" /\ RawTotal = 0) =>
        (FinalCorrect = 0 /\ FinalIncorrect = 0)

\* C2 amended: without any flag on the Input questions finalCorrect is zero and
\* finalIncorrect is totalAnswered, so both are zero only when nothing was answered.
C2_AllIncorrectWithoutFlags ==
    (rendered.view = "ready" /\ RawTotal = 0) =>
        (FinalCorrect = 0 /\ FinalIncorrect = AnsweredOver(DOMAIN questions))

\* C2 witness: answered questions without flags are all shown as incorrect.
C2_AnsweredWithoutFlags ==
    /\ rendered.view = "ready"
    /\ RawTotal = 0
    /\ rendered.totalAnswered = 2
    /\ FinalCorrect = 0 /\ FinalIncorrect = 2

\* C16: with at least one flag, the raw correct and incorrect counts are the
\* numbers of true and false isCorrect flags on the options of the Input questions
\* alone, and finalCorrect is the integer nearest to
\* correct / rawTotal * totalAnswered.
C16_ScaledFromInputFlags ==
    (rendered.view = "ready" /\ RawTotal > 0) =>
        LET correct == Cardinality(FlagsOfInputs(TRUE))
            scaled == correct * AnsweredOver(DOMAIN questions)
        IN  /\ rendered.correctResponses = correct
            /\ rendered.incorrectResponses = Cardinality(FlagsOfInputs(FALSE))
            /\ 2 * RawTotal * FinalCorrect <= 2 * scaled + RawTotal
            /\ 2 * scaled - RawTotal <= 2 * RawTotal * FinalCorrect

\* C16 witness: the worked example, flags true, true, false on an Input question
\* answered 30 times, gives 20 correct and 10 incorrect.
C16_Example ==
    /\ questions = ExamplePie
    /\ rendered.correctResponses = 2 /\ rendered.incorrectResponses = 1
    /\ FinalCorrect = 20 /\ FinalIncorrect = 10

\* C21: with counters that are non-negative integers, finalCorrect lies between 0
\* and totalAnswered, so finalIncorrect is not negative, and no slice of the
\* series [finalCorrect, finalIncorrect, totalSkipped] is negative.
C21_NoNegativeSlice ==
    rendered.view = "ready" =>
        /\ 0 <= FinalCorrect
        /\ FinalCorrect <= AnsweredOver(DOMAIN questions)
        /\ \A k \in 1..3 : rendered.responseDistribution[k] >= 0

\* C21 witness: every flag is correct and there are skips; finalCorrect reaches
\* totalAnswered without passing it and finalIncorrect is zero.
C21_AllCorrectWithSkips ==
    /\ rendered.view = "ready"
    /\ RawTotal > 0
    /\ rendered.totalSkipped > 0
    /\ rendered.totalAnswered = 2
    /\ rendered.responseDistribution = <<2, 0, rendered.totalSkipped>>

---------------------------------------------------------------------------
\* Properties of the "most skipped" ranking (checked under RankSpec)

InputIndices == {i \in DOMAIN questions : questions[i].questionType = "Input"}

\* C11: the ranking holds Input questions only, at most 3 of them, and exactly
\* min(3, number of held Input questions).
C11_MostSkippedShape ==
    rendered.view = "ready" =>
        LET ranking == rendered.mostSkipped
            inputs == Cardinality(InputIndices)
        IN  /\ \A k \in DOMAIN ranking : ranking[k].questionType = "Input"
            /\ Len(ranking) <= 3
            /\ Len(ranking) = IF inputs < 3 THEN inputs ELSE 3

\* C11 witness: four Input questions and a multiple-choice one give three entries.
C11_FourInputsOneOther ==
    /\ rendered.view = "ready"
    /\ Cardinality(InputIndices) = 4
    /\ Len(questions) = 5
    /\ Len(rendered.mostSkipped) = 3

\* The skip rate of the held question i in tenths of a percent, rounded to one
\* decimal; 0 when the question was never shown.
RateTenths(i) ==
    LET total == AnsweredAt(i) + SkippedAt(i)
    IN  IF total = 0 THEN 0 ELSE (2000 * SkippedAt(i) + total) \div (2 * total)

\* The first n of the indices S by non-increasing skip rate, the smaller index
\* first among equal rates.
RECURSIVE RankedIndices(_, _)
RankedIndices(S, n) ==
    IF S = {} \/ n = 0 THEN <<>>
    ELSE LET best == CHOOSE j \in S :
                        \A i \in S \ {j} :
                            \/ RateTenths(j) > RateTenths(i)
                            \/ RateTenths(j) = RateTenths(i) /\ j < i
         IN  <<best>> \o RankedIndices(S \ {best}, n - 1)

\* C17: the ranking lists the Input questions by non-increasing skip rate, "0.0"
\* for a question never shown and the percentage of skips rounded to one decimal
\* otherwise, questions of equal rate in their fetched order, cut to the first 3.
C17_MostSkippedOrder ==
    rendered.view = "ready" =>
        LET ranking == rendered.mostSkipped
            expected == RankedIndices(InputIndices, 3)
        IN  /\ Len(ranking) = Len(expected)
            /\ \A k \in DOMAIN ranking :
                  LET q == questions[expected[k]]
                  IN  /\ [f \in DOMAIN q |-> ranking[k][f]] = q
                      /\ IsFixed1(ranking[k].skipRate)
                      /\ TenthsOf(ranking[k].skipRate) = RateTenths(expected[k])
                      /\ AnsweredAt(expected[k]) + SkippedAt(expected[k]) = 0
                            => ranking[k].skipRate = "0.0"
            /\ \A k \in 1..(Len(ranking) - 1) :
                  TenthsOf(ranking[k].skipRate) >= TenthsOf(ranking[k + 1].skipRate)

\* C17 witness: of four Input questions the one with rate 66.7 comes first, the two
\* with rate 0.0 fetched before it follow in their fetched order, and the fourth is
\* cut.
C17_TieKeepsFetchedOrder ==
    /\ rendered.view = "ready"
    /\ Cardinality(InputIndices) = 4
    /\ questions[1].questionType = "Input" /\ questions[1].timesAnswered = Some(1)
    /\ questions[2].questionType = "Input" /\ questions[2].timesAnswered = Absent
    /\ Len(rendered.mostSkipped) = 3
    /\ rendered.mostSkipped[1].skipRate = "66.7"
    /\ rendered.mostSkipped[2].skipRate = "0.0"
    /\ rendered.mostSkipped[2].timesAnswered = Some(1)
    /\ rendered.mostSkipped[3].skipRate = "0.0"
    /\ rendered.mostSkipped[3].timesAnswered = Absent

---------------------------------------------------------------------------
\* Properties of the survey builder (checked under BuilderSpec and BatchSpec)

\* C12: once the editor is shown, every level has at least one entry in the
\* working set.
C12_EveryLevelHasEntry ==
    showUIImmediately => \A lvl \in Levels : Len(questionsByLevel[lvl]) >= 1

\* The number of entries over all levels.
TotalEntries(map) ==
    Len(map[LEVELS[1]]) + Len(map[LEVELS[2]]) + Len(map[LEVELS[3]])

\* C13: a level reassignment of the current question takes it out of its list and
\* makes it the last entry of the target level's list, the other entries and the
\* total number of entries unchanged, also when the target is the level it is in.
C13_ReassignMovesToEnd ==
    [][ (step'.op = "reassign" /\ step'.events = step.events + 1) =>
            LET old == currentTab
                target == step'.arg
                q == questionsByLevel[old][currentIndex + 1]
                moved == [q EXCEPT !.questionLevel = target]
                rest == RemoveAt(questionsByLevel[old], currentIndex)
            IN  /\ TotalEntries(questionsByLevel') = TotalEntries(questionsByLevel)
                /\ questionsByLevel'[target] =
                      Append(IF target = old THEN rest ELSE questionsByLevel[target],
                             moved)
                /\ target # old => questionsByLevel'[old] = rest
                /\ \A lvl \in Levels \ {old, target} :
                      questionsByLevel'[lvl] = questionsByLevel[lvl]
      ]_vars

\* C18: once the editor is shown, currentIndex addresses an existing entry of the
\* current tab's list.
C18_CurrentIndexInRange ==
    showUIImmediately =>
        (currentIndex >= 0 /\ currentIndex < Len(questionsByLevel[currentTab]))

\* The edits of the working set C19 is about.
EditOps == {"onAddQuestion", "update", "reassign"}

\* C19: when the backend call of a suspended onDeleteCurrent completes right after
\* an add, a field update or a level reassignment, the list of its level becomes
\* the list held at that moment, the edit included, without the entry that was
\* targeted, and nothing else is removed.
C19_DeleteKeepsEdits ==
    [][ (step'.op = "deleted current" /\ Len(deleting') < Len(deleting)
            /\ step.op \in EditOps) =>
            \E k \in DOMAIN deleting :
                LET d == deleting[k]
                    target == d.list[d.index + 1]._id
                IN  /\ deleting' = RemoveAt(deleting, k - 1)
                    /\ d.kind = "current"
                    /\ questionsByLevel'[d.tab] =
                          SelectSeq(questionsByLevel[d.tab], LAMBDA q : q._id # target)
      ]_vars

\* The string has a character other than a space.
NonBlank(str) == \E i \in 1..Len(str) : SubSeq(str, i, i) # " "

\* The working-set entries with a non-blank text, a category and a level, in the
\* order Beginner, Intermediate, Advanced and list order within a level.
CompletedEntries ==
    SelectSeq(questionsByLevel["Beginner"] \o questionsByLevel["Intermediate"]
                \o questionsByLevel["Advanced"],
              LAMBDA q : NonBlank(q.question) /\ q.questionCategory # ""
                            /\ q.questionLevel # "")

\* C20: a confirmed handleCreateNew or handleUpdate passes exactly the completed
\* entries, in level and list order, to createQuestions or updateQuestions, an
\* empty placeholder never among them; a declined one sends nothing, and nothing
\* else sends a batch.
C20_BatchIsCompletedEntries ==
    [][ /\ (step'.events = step.events + 1
              /\ step'.op \in {"createQuestions", "updateQuestions"}) =>
                /\ sent' = [calls |-> sent.calls + 1, op |-> step'.op,
                            batch |-> CompletedEntries]
                /\ \A i \in DOMAIN sent'.batch, lvl \in Levels :
                      sent'.batch[i] # EmptyQuestion(lvl)
        /\ (step'.events = step.events + 1 /\ step'.op = "declined") => sent' = sent
        /\ sent' # sent => step'.op \in {"createQuestions", "updateQuestions"}
      ]_vars

\* C20 witness: a batch of two questions of different levels was sent while the
\* working set also held an empty placeholder and a question whose text is blank.
C20_BlankAndPlaceholderLeftOut ==
    /\ step.op \in {"createQuestions", "updateQuestions"}
    /\ sent.calls = 1
    /\ Len(sent.batch) = 2
    /\ sent.batch[1].questionLevel = "Beginner"
    /\ sent.batch[2].questionLevel = "Advanced"
    /\ questionsByLevel["Intermediate"] = <<EmptyQuestion("Intermediate")>>
    /\ \E i \in DOMAIN questionsByLevel["Beginner"] :
          /\ questionsByLevel["Beginner"][i].question = "  "
          /\ questionsByLevel["Beginner"][i].questionCategory # ""

=============================================================================
